---- MODULE Spec2Model ----
(***************************************************************************)
(* Model of class BankAccount (cpp/1-Encapsulation/bank_account.cpp).      *)
(*                                                                         *)
(* The fields balance and interestRate and every amount are C++ doubles.   *)
(* They are modelled as a binary floating-point format of the same shape   *)
(* as IEEE-754 binary64 with a reduced precision and exponent range: the   *)
(* finite values are m * 2^e with |m| < 2^P and 0 <= e <= Emax (binary64   *)
(* is P = 53 with 2^-1074 as the smallest quantum), plus +inf, -inf and    *)
(* NaN.  Arithmetic rounds the exact result to nearest, ties to even, and  *)
(* overflows to infinity; comparisons with NaN are false.  The sign of     *)
(* zero, which no comparison of the class tells apart and which changes    *)
(* no later sum or product, is not represented.                            *)
(***************************************************************************)
EXTENDS Integers, FiniteSets, Sequences, TLC

\* Bounds of the floating-point format.
P == 5
Emax == 5

RECURSIVE Pow2(_)
Pow2(n) == IF n = 0 THEN 1 ELSE 2 * Pow2(n - 1)

\* Encoding of the non-finite doubles as integers outside the finite range.
PosInf == Pow2(P + Emax)
NegInf == 0 - PosInf
NaN == PosInf + 1
MaxFinite == (Pow2(P) - 1) * Pow2(Emax)

IsNaN(x) == x = NaN
IsInf(x) == x = PosInf \/ x = NegInf
IsFinite(x) == ~IsNaN(x) /\ ~IsInf(x)

\* The finite values of the format, and all its values.
FiniteDouble == { s * m * Pow2(e) : s \in {-1, 1}, m \in 0..(Pow2(P) - 1), e \in 0..Emax }
Double == FiniteDouble \cup {PosInf, NegInf, NaN}

\* Exponent of the binade that holds the magnitude n/d.
RECURSIVE ExpOf(_, _, _)
ExpOf(n, d, e) == IF e = Emax \/ n < Pow2(P + e) * d THEN e ELSE ExpOf(n, d, e + 1)

\* Round the magnitude n/d (n >= 0, d > 0) to nearest, ties to even.
RoundMag(n, d) ==
    LET e == ExpOf(n, d, 0)
        u == Pow2(e) * d
        q == n \div u
        r == n % u
        m == IF 2 * r > u \/ (2 * r = u /\ q % 2 = 1) THEN q + 1 ELSE q
    IN  IF e = Emax /\ m >= Pow2(P) THEN PosInf ELSE m * Pow2(e)

Round(n, d) == IF n >= 0 THEN RoundMag(n, d) ELSE 0 - RoundMag(0 - n, d)

\* Comparisons of doubles: every comparison with NaN is false.
FGt(a, b) == ~IsNaN(a) /\ ~IsNaN(b) /\ a > b
FGe(a, b) == ~IsNaN(a) /\ ~IsNaN(b) /\ a >= b
FLe(a, b) == ~IsNaN(a) /\ ~IsNaN(b) /\ a <= b

FNeg(a) == IF IsNaN(a) THEN NaN ELSE 0 - a

FAdd(a, b) ==
    IF IsNaN(a) \/ IsNaN(b) THEN NaN
    ELSE IF IsInf(a) THEN (IF IsInf(b) /\ a # b THEN NaN ELSE a)
    ELSE IF IsInf(b) THEN b
    ELSE Round(a + b, 1)

FSub(a, b) == FAdd(a, FNeg(b))

Sign(a) == IF a > 0 THEN 1 ELSE IF a < 0 THEN -1 ELSE 0

FMul(a, b) ==
    IF IsNaN(a) \/ IsNaN(b) THEN NaN
    ELSE IF IsInf(a) \/ IsInf(b)
         THEN (IF a = 0 \/ b = 0 THEN NaN ELSE Sign(a) * Sign(b) * PosInf)
    ELSE Round(a * b, 1)

FDiv(a, b) ==
    IF IsNaN(a) \/ IsNaN(b) THEN NaN
    ELSE IF IsInf(a) THEN (IF IsInf(b) THEN NaN
                           ELSE IF b < 0 THEN 0 - a ELSE a)
    ELSE IF IsInf(b) THEN 0
    ELSE IF b = 0 THEN (IF a = 0 THEN NaN ELSE Sign(a) * PosInf)
    ELSE IF b > 0 THEN Round(a, b) ELSE Round(0 - a, 0 - b)

\* Literals of the source.
Zero == 0
MaxRate == 50
Hundred == 100

\* ------------------------------------------------------------------------
\* Inputs.  MaxOdd is the largest double whose quantum is still 1 and
\* Quarter a quarter of the largest finite double: sums and differences of
\* either with larger balances round.
\* ------------------------------------------------------------------------
MaxOdd == Pow2(P) - 1
Quarter == MaxOdd * Pow2(Emax - 2)
AccountIds == {"ACC001", "ACC002"}
Holders == {"", "John Doe"}
InitialBalances == {-2, 0, 16, MaxFinite, NaN}
InitialRates == {-1, 0, 50, 52}
Amounts == {-1, 0, 1, MaxOdd, MaxFinite, PosInf, NaN}
Rates == {-1, 0, 4, 50, 52, NaN}
PairBalances == {0, Quarter, MaxFinite}
PairAmounts == {-1, 0, Quarter, MaxFinite, PosInf, NaN}
PairRates == {0, 52}

\* acct: the accounts that exist, by account number.  last: the call that
\* has just returned.  pre: the accounts as they were when it was entered.
VARIABLES acct, pre, last
vars == <<acct, pre, last>>

\* BankAccount::BankAccount: the five fields are assigned from the
\* arguments without validation.
BankAccount(accNum, holder, initialBalance, type, rate) ==
    [accountNumber |-> accNum, accountHolder |-> holder,
     balance |-> initialBalance, accountType |-> type, interestRate |-> rate]

\* One finished call: the method, its receiver, its arguments, the returned
\* value (ret for the bool methods, interest for applyInterest) and the
\* message it printed.
Call(op, self, to, arg, name, ret, interest, out) ==
    [op |-> op, self |-> self, to |-> to, arg |-> arg, name |-> name,
     ret |-> ret, interest |-> interest, out |-> out]

\* One account, constructed with any of the argument values.
Init ==
    /\ \E h \in Holders, b \in InitialBalances, r \in InitialRates :
          acct = [id \in {"ACC001"} |-> BankAccount(id, h, b, "Savings", r)]
    /\ pre = acct
    /\ last = Call("BankAccount", "ACC001", "ACC001", Zero, "", TRUE, Zero, "Created")

\* Two accounts, constructed with the default type and rate.
InitPair ==
    /\ \E b \in [AccountIds -> PairBalances] :
          acct = [id \in AccountIds |-> BankAccount(id, "John Doe", b[id], "Savings", Zero)]
    /\ pre = acct
    /\ last = Call("BankAccount", "ACC001", "ACC001", Zero, "", TRUE, Zero, "Created")

\* BankAccount::isValidAmount
isValidAmount(amount) == FGt(amount, Zero)

\* setInterestRate with the upper end of the range excluded.
setInterestRate_OpenUpperEnd(self, rate) ==
    /\ pre' = acct
    /\ IF FGe(rate, Zero) /\ FGt(MaxRate, rate)
       THEN /\ acct' = [acct EXCEPT ![self].interestRate = rate]
            /\ last' = Call("setInterestRate", self, self, rate, "", TRUE, Zero, "RateUpdated")
       ELSE /\ acct' = acct
            /\ last' = Call("setInterestRate", self, self, rate, "", FALSE, Zero, "InvalidInterestRate")

\* BankAccount::setInterestRate
setInterestRate(self, rate) ==
    /\ pre' = acct
    /\ IF FGe(rate, Zero) /\ FLe(rate, MaxRate)
       THEN /\ acct' = [acct EXCEPT ![self].interestRate = rate]
            /\ last' = Call("setInterestRate", self, self, rate, "", TRUE, Zero, "RateUpdated")
       ELSE /\ acct' = acct
            /\ last' = Call("setInterestRate", self, self, rate, "", FALSE, Zero, "InvalidInterestRate")

\* BankAccount::setAccountHolder
setAccountHolder(self, newHolder) ==
    /\ pre' = acct
    /\ IF newHolder # ""
       THEN /\ acct' = [acct EXCEPT ![self].accountHolder = newHolder]
            /\ last' = Call("setAccountHolder", self, self, Zero, newHolder, TRUE, Zero, "HolderUpdated")
       ELSE /\ acct' = acct
            /\ last' = Call("setAccountHolder", self, self, Zero, newHolder, FALSE, Zero, "InvalidHolderName")

\* BankAccount::deposit
deposit(self, amount) ==
    /\ pre' = acct
    /\ IF ~isValidAmount(amount)
       THEN /\ acct' = acct
            /\ last' = Call("deposit", self, self, amount, "", FALSE, Zero, "InvalidAmount")
       ELSE /\ acct' = [acct EXCEPT ![self].balance = FAdd(@, amount)]
            /\ last' = Call("deposit", self, self, amount, "", TRUE, Zero, "DepositSuccessful")

\* withdraw with the funds check ahead of the amount check.
withdraw_FundsCheckFirst(self, amount) ==
    /\ pre' = acct
    /\ IF FGt(amount, acct[self].balance)
       THEN /\ acct' = acct
            /\ last' = Call("withdraw", self, self, amount, "", FALSE, Zero, "InsufficientFunds")
       ELSE IF ~isValidAmount(amount)
       THEN /\ acct' = acct
            /\ last' = Call("withdraw", self, self, amount, "", FALSE, Zero, "InvalidAmount")
       ELSE /\ acct' = [acct EXCEPT ![self].balance = FSub(@, amount)]
            /\ last' = Call("withdraw", self, self, amount, "", TRUE, Zero, "WithdrawalSuccessful")

\* BankAccount::withdraw
withdraw(self, amount) ==
    /\ pre' = acct
    /\ IF ~isValidAmount(amount)
       THEN /\ acct' = acct
            /\ last' = Call("withdraw", self, self, amount, "", FALSE, Zero, "InvalidAmount")
       ELSE IF FGt(amount, acct[self].balance)
       THEN /\ acct' = acct
            /\ last' = Call("withdraw", self, self, amount, "", FALSE, Zero, "InsufficientFunds")
       ELSE /\ acct' = [acct EXCEPT ![self].balance = FSub(@, amount)]
            /\ last' = Call("withdraw", self, self, amount, "", TRUE, Zero, "WithdrawalSuccessful")

\* transfer that debits the source before it checks the funds.
transfer_DebitBeforeCheck(self, toAccount, amount) ==
    /\ pre' = acct
    /\ IF ~isValidAmount(amount)
       THEN /\ acct' = acct
            /\ last' = Call("transfer", self, toAccount, amount, "", FALSE, Zero, "InvalidAmount")
       ELSE LET debited == [acct EXCEPT ![self].balance = FSub(@, amount)]
            IN  IF FGt(amount, acct[self].balance)
                THEN /\ acct' = debited
                     /\ last' = Call("transfer", self, toAccount, amount, "", FALSE, Zero, "InsufficientFunds")
                ELSE /\ acct' = [debited EXCEPT ![toAccount].balance = FAdd(@, amount)]
                     /\ last' = Call("transfer", self, toAccount, amount, "", TRUE, Zero, "TransferSuccessful")

\* transfer that credits the destination with the source's new balance.
transfer_CreditsNewBalance(self, toAccount, amount) ==
    /\ pre' = acct
    /\ IF ~isValidAmount(amount)
       THEN /\ acct' = acct
            /\ last' = Call("transfer", self, toAccount, amount, "", FALSE, Zero, "InvalidAmount")
       ELSE IF FGt(amount, acct[self].balance)
       THEN /\ acct' = acct
            /\ last' = Call("transfer", self, toAccount, amount, "", FALSE, Zero, "InsufficientFunds")
       ELSE LET debited == [acct EXCEPT ![self].balance = FSub(@, amount)]
            IN  /\ acct' = [debited EXCEPT ![toAccount].balance = FAdd(@, debited[self].balance)]
                /\ last' = Call("transfer", self, toAccount, amount, "", TRUE, Zero, "TransferSuccessful")

\* BankAccount::transfer.  toAccount is a reference and may be the receiver
\* itself: the credit reads the balance the debit has just written.
transfer(self, toAccount, amount) ==
    /\ pre' = acct
    /\ IF ~isValidAmount(amount)
       THEN /\ acct' = acct
            /\ last' = Call("transfer", self, toAccount, amount, "", FALSE, Zero, "InvalidAmount")
       ELSE IF FGt(amount, acct[self].balance)
       THEN /\ acct' = acct
            /\ last' = Call("transfer", self, toAccount, amount, "", FALSE, Zero, "InsufficientFunds")
       ELSE LET debited == [acct EXCEPT ![self].balance = FSub(@, amount)]
            IN  /\ acct' = [debited EXCEPT ![toAccount].balance = FAdd(@, amount)]
                /\ last' = Call("transfer", self, toAccount, amount, "", TRUE, Zero, "TransferSuccessful")

\* applyInterest that divides the balance by 100 before it multiplies.
applyInterest_DividesFirst(self) ==
    LET interestAmount == FMul(FDiv(acct[self].balance, Hundred), acct[self].interestRate)
    IN  /\ pre' = acct
        /\ acct' = [acct EXCEPT ![self].balance = FAdd(@, interestAmount)]
        /\ last' = Call("applyInterest", self, self, Zero, "", TRUE, interestAmount, "InterestApplied")

\* BankAccount::applyInterest
applyInterest(self) ==
    LET interestAmount == FDiv(FMul(acct[self].balance, acct[self].interestRate), Hundred)
    IN  /\ pre' = acct
        /\ acct' = [acct EXCEPT ![self].balance = FAdd(@, interestAmount)]
        /\ last' = Call("applyInterest", self, self, Zero, "", TRUE, interestAmount, "InterestApplied")

\* Any call on the one account; a transfer names the account itself.
Next ==
    \/ \E self \in DOMAIN acct, rate \in Rates : setInterestRate(self, rate)
    \/ \E self \in DOMAIN acct, newHolder \in Holders : setAccountHolder(self, newHolder)
    \/ \E self \in DOMAIN acct, amount \in Amounts : deposit(self, amount)
    \/ \E self \in DOMAIN acct, amount \in Amounts : withdraw(self, amount)
    \/ \E self \in DOMAIN acct, toAccount \in DOMAIN acct, amount \in Amounts :
          transfer(self, toAccount, amount)
    \/ \E self \in DOMAIN acct : applyInterest(self)

\* Any call on either of two accounts.
NextPair ==
    \/ \E self \in DOMAIN acct, rate \in PairRates : setInterestRate(self, rate)
    \/ \E self \in DOMAIN acct, newHolder \in Holders : setAccountHolder(self, newHolder)
    \/ \E self \in DOMAIN acct, amount \in PairAmounts : deposit(self, amount)
    \/ \E self \in DOMAIN acct, amount \in PairAmounts : withdraw(self, amount)
    \/ \E self \in DOMAIN acct, toAccount \in DOMAIN acct, amount \in PairAmounts :
          transfer(self, toAccount, amount)
    \/ \E self \in DOMAIN acct : applyInterest(self)

\* Only withdrawals and transfers on either of two accounts.
NextMoves ==
    \/ \E self \in DOMAIN acct, amount \in PairAmounts : withdraw(self, amount)
    \/ \E self \in DOMAIN acct, toAccount \in DOMAIN acct, amount \in PairAmounts :
          transfer(self, toAccount, amount)

Spec == Init /\ [][Next]_vars
SpecMoves == InitPair /\ [][NextMoves]_vars
SpecPair == InitPair /\ [][NextPair]_vars

\* ------------------------------------------------------------------------
\* Properties
\* ------------------------------------------------------------------------
\* The receiver and the destination of the last call, before and after it.
SelfPre == pre[last.self]
SelfNow == acct[last.self]
ToPre == pre[last.to]
ToNow == acct[last.to]
Mutators == {"setInterestRate", "setAccountHolder", "deposit", "withdraw",
             "transfer", "applyInterest"}

\* C1: starting from two accounts whose balances are >= 0, after any
\* sequence of withdraw and transfer calls, with any amounts and accounts,
\* every balance is >= 0.
C1_BalanceStaysNonNegative ==
    \A id \in DOMAIN acct : FGe(acct[id].balance, Zero)

\* C2: in every state of an account, from construction on, the interest
\* rate lies in [0, 50].
C2_InterestRateInRange ==
    \A id \in DOMAIN acct :
        FGe(acct[id].interestRate, Zero) /\ FLe(acct[id].interestRate, MaxRate)

\* C7: after any mutating call that reported success the holder name of the
\* account is not empty.
C7_HolderNeverEmpty ==
    (last.op \in Mutators /\ last.ret) => SelfNow.accountHolder # ""

\* The exact sum and difference of two finite doubles are themselves finite
\* doubles, so that the double operation does not round.
ExactAdd(a, b) == IsFinite(a) /\ IsFinite(b) /\ (a + b) \in FiniteDouble
ExactSub(a, b) == IsFinite(a) /\ IsFinite(b) /\ (a - b) \in FiniteDouble

\* The last call was a transfer between two distinct accounts with
\* 0 < amount <= balance of the source.
TransferWithFunds ==
    /\ last.op = "transfer"
    /\ last.self # last.to
    /\ FGt(last.arg, Zero)
    /\ FLe(last.arg, SelfPre.balance)

\* C3 as stated: such a transfer returns true, the source balance decreases
\* by exactly the amount, the destination balance increases by exactly the
\* amount, and the sum of the two balances is the same before and after.
C3_TransferConservesExactly ==
    TransferWithFunds =>
        /\ last.ret
        /\ IsFinite(SelfNow.balance) /\ SelfPre.balance - SelfNow.balance = last.arg
        /\ IsFinite(ToNow.balance) /\ ToNow.balance - ToPre.balance = last.arg
        /\ SelfNow.balance + ToNow.balance = SelfPre.balance + ToPre.balance

\* C3 amended: such a transfer returns true, the source balance becomes the
\* double nearest to balance - amount and the destination balance the double
\* nearest to balance + amount, nothing else changes, and when neither
\* operation rounds the decrease and the increase are exactly the amount and
\* the sum of the two balances is the same before and after.
C3_TransferConservesUpToRounding ==
    TransferWithFunds =>
        /\ last.ret
        /\ SelfNow = [SelfPre EXCEPT !.balance = FSub(SelfPre.balance, last.arg)]
        /\ ToNow = [ToPre EXCEPT !.balance = FAdd(ToPre.balance, last.arg)]
        /\ (ExactSub(SelfPre.balance, last.arg) /\ ExactAdd(ToPre.balance, last.arg)) =>
              /\ SelfPre.balance - SelfNow.balance = last.arg
              /\ ToNow.balance - ToPre.balance = last.arg
              /\ SelfNow.balance + ToNow.balance = SelfPre.balance + ToPre.balance

\* A transfer between two accounts that moved the amount without rounding.
C3_Witness ==
    /\ TransferWithFunds
    /\ ExactSub(SelfPre.balance, last.arg) /\ ExactAdd(ToPre.balance, last.arg)
    /\ SelfNow.balance < SelfPre.balance
    /\ ToNow.balance > ToPre.balance

\* C4: a call that reported failure left every field of every account,
\* the receiver and a transfer's destination included, as it was.
C4_RejectedIsNoOp ==
    (last.op \in Mutators /\ ~last.ret) => acct = pre

\* A transfer to another account rejected for insufficient funds.
C4_Witness ==
    /\ last.op = "transfer" /\ ~last.ret /\ last.self # last.to
    /\ last.out = "InsufficientFunds"
    /\ FGt(last.arg, SelfPre.balance)

\* C5 as stated: withdraw returns true and decreases the balance by exactly
\* the amount if and only if amount > 0 and amount <= balance (the whole
\* balance included); otherwise it returns false.
C5_WithdrawIffFunds ==
    last.op = "withdraw" =>
        /\ last.ret <=> (FGt(last.arg, Zero) /\ FLe(last.arg, SelfPre.balance))
        /\ last.ret => /\ IsFinite(SelfNow.balance)
                       /\ SelfPre.balance - SelfNow.balance = last.arg

\* C6 as stated: withdraw with amount > balance fails with the outcome
\* InsufficientFunds and leaves the balance unchanged, in every state of the
\* account and for every amount.
C6_OverdraftIsInsufficientFunds ==
    (last.op = "withdraw" /\ FGt(last.arg, SelfPre.balance)) =>
        /\ ~last.ret
        /\ last.out = "InsufficientFunds"
        /\ SelfNow.balance = SelfPre.balance

\* C6 amended: withdraw with amount > balance fails and leaves the account
\* unchanged; the outcome is InsufficientFunds when amount > 0 and
\* InvalidAmount when amount <= 0 (which a negative balance allows).
C6_OverdraftIsRejected ==
    (last.op = "withdraw" /\ FGt(last.arg, SelfPre.balance)) =>
        /\ ~last.ret
        /\ last.out = (IF FGt(last.arg, Zero) THEN "InsufficientFunds" ELSE "InvalidAmount")
        /\ acct = pre

\* A withdrawal of a non-positive amount above a negative balance.
C6_Witness ==
    /\ last.op = "withdraw"
    /\ FGt(last.arg, SelfPre.balance)
    /\ FLe(last.arg, Zero)
    /\ last.out = "InvalidAmount"

\* The closed range [0, 50] of the finite values, in exact arithmetic.
InClosedRange(x) == x \in FiniteDouble /\ 0 <= x /\ x <= 50

\* C8: setInterestRate returns true and sets the rate to its argument if and
\* only if 0 <= rate <= 50, both ends included; otherwise it returns false
\* and the rate keeps its value.
C8_SetInterestRateClosedRange ==
    last.op = "setInterestRate" =>
        /\ last.ret <=> InClosedRange(last.arg)
        /\ last.ret => SelfNow = [SelfPre EXCEPT !.interestRate = last.arg]
        /\ ~last.ret => SelfNow = SelfPre

\* The upper end of the range was accepted and replaced another rate.
C8_Witness ==
    /\ last.op = "setInterestRate"
    /\ last.arg = 50
    /\ last.ret
    /\ SelfPre.interestRate # 50
    /\ SelfNow.interestRate = 50

\* C9: applyInterest returns balance * interestRate / 100 computed in double
\* arithmetic from the balance and rate at entry, sets the balance to the
\* balance at entry plus that amount and changes nothing else; when the
\* product, the quotient and the sum are exact, the returned amount is the
\* exact percentage and the balance the exact sum.
C9_ApplyInterest ==
    last.op = "applyInterest" =>
        LET b == SelfPre.balance
            r == SelfPre.interestRate
        IN  /\ last.ret
            /\ last.interest = FDiv(FMul(b, r), Hundred)
            /\ SelfNow = [SelfPre EXCEPT !.balance = FAdd(b, last.interest)]
            /\ (/\ IsFinite(b) /\ IsFinite(r)
                /\ (b * r) \in FiniteDouble
                /\ (b * r) % 100 = 0
                /\ (b + (b * r) \div 100) \in FiniteDouble)
               => /\ last.interest * 100 = b * r
                  /\ SelfNow.balance = b + last.interest

\* Interest of 50% on a balance of 16 returned 8 and left 24.
C9_Witness ==
    /\ last.op = "applyInterest"
    /\ SelfPre.balance = 16 /\ SelfPre.interestRate = 50
    /\ last.interest = 8
    /\ SelfNow.balance = 24

\* C10 as stated: a transfer from an account to itself is accepted exactly
\* when 0 < amount <= balance, and accepted or rejected it leaves the
\* balance and every other field of the account as before the call.
C10_SelfTransferNetZero ==
    (last.op = "transfer" /\ last.self = last.to) =>
        /\ last.ret <=> (FGt(last.arg, Zero) /\ FLe(last.arg, SelfPre.balance))
        /\ SelfNow = SelfPre
====
